---- MODULE Spec2Model ----
(***************************************************************************)
(* Model of the adapter library's conformance-test orchestration           *)
(* (adapter/smi.go: Adapter.RunSMITest and the four phase functions), of   *)
(* its kubeconfig validation (adapter/configure.go:                        *)
(* Adapter.validateKubeconfig, filterK8sConfigAuthInfos) and of its        *)
(* bootstrap (adapter/configure.go: Adapter.CreateInstance).               *)
(*                                                                         *)
(* Spec            one RunSMITest call, one step per collaborator call     *)
(* SpecKube        validateKubeconfig calls on one Adapter                 *)
(* SpecFilter      filterK8sConfigAuthInfos applied repeatedly to one map  *)
(* SpecCreate      CreateInstance calls of one caller, one step per step   *)
(*                 of its body                                             *)
(* SpecConcurrent  two callers each calling CreateInstance once, their     *)
(*                 steps interleaved; each step is taken as atomic         *)
(***************************************************************************)
EXTENDS Integers, Sequences, FiniteSets, TLC

VARIABLES
    h,          \* the Adapter: name, version and the fields CreateInstance writes
    pc,         \* position of the RunSMITest call
    opts,       \* SMITestOptions of the call
    now,        \* instant read by time.Now()
    response,   \* the Response under construction / returned
    err,        \* the error returned by RunSMITest
    smiAddress, \* SMITest.smiAddress
    result,     \* the reply of the remote tool to RunTest
    calls,      \* collaborator calls issued by the call, in order
    kpc,        \* position of the validateKubeconfig call
    kubeconfig, \* argument of the validateKubeconfig call
    authInfos,  \* the auth-info map of the call as filterK8sConfigAuthInfos left it
    kerr,       \* error returned by the validateKubeconfig call
    fAuthInfos, \* an auth-info map handed to filterK8sConfigAuthInfos, filtered in place
    fLog,       \* the map and the error after each application of the filter to it
    callers,    \* the goroutines that call CreateInstance on the Adapter
    inCluster,  \* rest.InClusterConfig finds ambient credentials
    cpc,        \* position of each caller's CreateInstance call
    cargs,      \* arguments of each caller's CreateInstance call
    cerr,       \* error returned to each caller
    cbefore,    \* the Adapter as it was when each caller's call began
    clog        \* the steps of the CreateInstance calls, in order of execution

vars == <<h, pc, opts, now, response, err, smiAddress, result, calls,
          kpc, kubeconfig, authInfos, kerr, fAuthInfos, fLog,
          callers, inCluster, cpc, cargs, cerr, cbefore, clog>>

smiVars == <<pc, opts, now, response, err, smiAddress, result, calls>>
filterVars == <<fAuthInfos, fLog>>
createVars == <<callers, inCluster, cpc, cargs, cerr, cbefore, clog>>
\* the variables of configure.go
kubeVars == <<kpc, kubeconfig, authInfos, kerr, filterVars, createVars>>

----------------------------------------------------------------------------
(* Bounds of the model *)

MaxDetails == 3     \* longest assertion list the remote tool returns
MaxUsers == 2       \* auth-info names of a kubeconfig document: 1..MaxUsers
MaxFilterRuns == 2  \* applications of the filter to one auth-info map

Nil == "nil"

----------------------------------------------------------------------------
(* Values of the orchestration *)

AdapterNames == {"istio", "linkerd"}
AdapterVersions == {"1.8.2"}
OperationIDs == {"op-1", "op-2"}
Namespaces == {"", "smi-ns"}
Manifests == {"https://example.org/smi.yaml"}
Instants == {0, 1}
Endpoints == {[Address |-> "10.0.0.7", Port |-> 10008]}

\* time.Now().Format(time.RFC3339)
FormatRFC3339(t) ==
    CASE t = 0 -> "2020-10-01T10:00:00Z"
      [] t = 1 -> "2020-10-01T10:00:01Z"

\* fmt.Sprintf("%s:%d", endpoint.Address, endpoint.Port)
FormatAddress(endpoint) ==
    CASE endpoint.Port = 10008 -> endpoint.Address \o ":10008"

\* conformance.Detail records the remote tool may return
RawDetails == {
    [Smispec |-> "traffic-access", Smiversion |-> "v1alpha1", Time |-> "1s",
     Assertions |-> "3", Result |-> "passed", Reason |-> "",
     Capability |-> "FULL", Status |-> "PASSED"],
    [Smispec |-> "traffic-split", Smiversion |-> "v1alpha2", Time |-> "2s",
     Assertions |-> "2", Result |-> "failed", Reason |-> "timeout",
     Capability |-> "HALF", Status |-> "FAILED"],
    [Smispec |-> "traffic-spec", Smiversion |-> "v1alpha3", Time |-> "4s",
     Assertions |-> "5", Result |-> "skipped", Reason |-> "unsupported",
     Capability |-> "NONE", Status |-> "SKIPPED"] }

RECURSIVE SeqsUpTo(_, _)
SeqsUpTo(S, n) ==
    IF n = 0 THEN {<<>>}
    ELSE LET shorter == SeqsUpTo(S, n - 1)
         IN  shorter \cup {Append(s, x) : s \in {t \in shorter : Len(t) = n - 1}, x \in S}

\* conformance.Result values the remote tool may return
RawResults ==
    { [Casespassed |-> c[1], Passpercent |-> c[2], Details |-> d] :
        c \in {<<"0", "0">>, <<"8", "100">>}, d \in SeqsUpTo(RawDetails, MaxDetails) }

NoResult == [Casespassed |-> "", Passpercent |-> "", Details |-> <<>>]

\* Response{}
ZeroResponse ==
    [ID |-> "", Date |-> "", MeshName |-> "", MeshVersion |-> "",
     CasesPassed |-> "", PassingPercentage |-> "", Status |-> "", MoreDetails |-> <<>>]

NoOpts == [OperationID |-> "", Namespace |-> "", Manifest |-> ""]

\* one collaborator call: the operation, the phase function issuing it, the
\* namespace passed (Nil when the call takes none), the Delete flag, the outcome
Call(op, phase, ns, delete, ok) ==
    [op |-> op, phase |-> phase, ns |-> ns, delete |-> delete, ok |-> ok]

----------------------------------------------------------------------------
(* The result aggregation of runConformanceTest *)

\* &Detail{...} built from one raw record
NewDetail(d) ==
    [SmiSpecification |-> d.Smispec,
     SmiVersion |-> "",
     Time |-> d.Time,
     Assertions |-> d.Assertions,
     Result |-> d.Result,
     Reason |-> d.Reason,
     Capability |-> d.Capability,
     Status |-> d.Status]

\* the aggregation with each record put in front of the earlier ones
RECURSIVE AppendDetailsReversed(_, _)
AppendDetailsReversed(details, raw) ==
    IF raw = <<>> THEN details
    ELSE AppendDetailsReversed(<<NewDetail(Head(raw))>> \o details, Tail(raw))

\* details := make([]*Detail, 0); for _, d := range raw { details = append(details, ...) }
RECURSIVE AppendDetails(_, _)
AppendDetails(details, raw) ==
    IF raw = <<>> THEN details
    ELSE AppendDetails(Append(details, NewDetail(Head(raw))), Tail(raw))

Aggregate(raw) == AppendDetails(<<>>, raw)

----------------------------------------------------------------------------
(* Adapter.RunSMITest *)

\* return response, e
Return(resp, e) ==
    /\ response' = resp
    /\ err' = e
    /\ pc' = "done"

\* the caller invokes RunSMITest(opts)
RunSMITest ==
    /\ pc = "idle"
    /\ \E id \in OperationIDs, ns \in Namespaces, m \in Manifests :
          opts' = [OperationID |-> id, Namespace |-> ns, Manifest |-> m]
    /\ \E t \in Instants : now' = t
    /\ pc' = "new"
    /\ UNCHANGED <<h, response, err, smiAddress, result, calls, kubeVars>>

\* mesherykube.New, then the SMITest and the Response literals
NewKubeClient ==
    /\ pc = "new"
    /\ \E ok \in BOOLEAN :
          /\ calls' = Append(calls, Call("New", "init", Nil, FALSE, ok))
          /\ IF ok
             THEN /\ response' = [ID |-> opts.OperationID,
                                  Date |-> FormatRFC3339(now),
                                  MeshName |-> h.name,
                                  MeshVersion |-> h.version,
                                  CasesPassed |-> "0",
                                  PassingPercentage |-> "0",
                                  Status |-> "deploying",
                                  MoreDetails |-> <<>>]
                  /\ pc' = "installFetch"
                  /\ UNCHANGED err
             ELSE Return(ZeroResponse, "ErrSmiInit")
    /\ UNCHANGED <<h, opts, now, smiAddress, result, kubeVars>>

\* InstallFetch with the error of the manifest fetch ignored
InstallFetchIgnoringError ==
    /\ pc = "installFetch"
    /\ \E ok \in BOOLEAN :
          calls' = Append(calls, Call("ReadRemoteFile", "installing", Nil, FALSE, ok))
    /\ pc' = "installApply"
    /\ UNCHANGED <<h, opts, now, response, err, smiAddress, result, kubeVars>>

\* installConformanceTool: utils.ReadRemoteFile
InstallFetch ==
    /\ pc = "installFetch"
    /\ \E ok \in BOOLEAN :
          /\ calls' = Append(calls, Call("ReadRemoteFile", "installing", Nil, FALSE, ok))
          /\ IF ok
             THEN /\ pc' = "installApply"
                  /\ UNCHANGED <<response, err>>
             ELSE Return([response EXCEPT !.Status = "installing"], "ErrInstallSmi")
    /\ UNCHANGED <<h, opts, now, smiAddress, result, kubeVars>>

\* InstallApply returning Response{} when the apply fails
InstallApplyEmptyReport ==
    /\ pc = "installApply"
    /\ \E ok \in BOOLEAN :
          /\ calls' = Append(calls,
                Call("ApplyManifest", "installing", opts.Namespace, FALSE, ok))
          /\ IF ok
             THEN /\ pc' = "connect"
                  /\ UNCHANGED <<response, err>>
             ELSE Return(ZeroResponse, "ErrInstallSmi")
    /\ UNCHANGED <<h, opts, now, smiAddress, result, kubeVars>>

\* InstallApply applying the manifest a second time after a first failure
InstallApplyRetrying ==
    /\ pc = "installApply"
    /\ \E ok \in BOOLEAN :
          /\ calls' = Append(calls,
                Call("ApplyManifest", "installing", opts.Namespace, FALSE, ok))
          /\ IF ok
             THEN /\ pc' = "connect"
                  /\ UNCHANGED <<response, err>>
             ELSE IF \E i \in 1..Len(calls) : calls[i].op = "ApplyManifest"
             THEN Return([response EXCEPT !.Status = "installing"], "ErrInstallSmi")
             ELSE UNCHANGED <<pc, response, err>>
    /\ UNCHANGED <<h, opts, now, smiAddress, result, kubeVars>>

\* installConformanceTool: kclient.ApplyManifest, then the settle sleep
InstallApply ==
    /\ pc = "installApply"
    /\ \E ok \in BOOLEAN :
          /\ calls' = Append(calls,
                Call("ApplyManifest", "installing", opts.Namespace, FALSE, ok))
          /\ IF ok
             THEN /\ pc' = "connect"
                  /\ UNCHANGED <<response, err>>
             ELSE Return([response EXCEPT !.Status = "installing"], "ErrInstallSmi")
    /\ UNCHANGED <<h, opts, now, smiAddress, result, kubeVars>>

\* Connect reporting its failure under the previous phase's status
ConnectStaleStatus ==
    /\ pc = "connect"
    /\ \E ok \in BOOLEAN :
          /\ calls' = Append(calls,
                Call("GetServiceEndpoint", "connecting", opts.Namespace, FALSE, ok))
          /\ IF ok
             THEN /\ \E e \in Endpoints : smiAddress' = FormatAddress(e)
                  /\ pc' = "open"
                  /\ UNCHANGED <<response, err>>
             ELSE /\ Return([response EXCEPT !.Status = "installing"], "ErrConnectSmi")
                  /\ UNCHANGED smiAddress
    /\ UNCHANGED <<h, opts, now, result, kubeVars>>

\* connectConformanceTool: kclient.GetServiceEndpoint
Connect ==
    /\ pc = "connect"
    /\ \E ok \in BOOLEAN :
          /\ calls' = Append(calls,
                Call("GetServiceEndpoint", "connecting", opts.Namespace, FALSE, ok))
          /\ IF ok
             THEN /\ \E e \in Endpoints : smiAddress' = FormatAddress(e)
                  /\ pc' = "open"
                  /\ UNCHANGED <<response, err>>
             ELSE /\ Return([response EXCEPT !.Status = "connecting"], "ErrConnectSmi")
                  /\ UNCHANGED smiAddress
    /\ UNCHANGED <<h, opts, now, result, kubeVars>>

\* runConformanceTest: conformance.CreateClient
OpenSession ==
    /\ pc = "open"
    /\ \E ok \in BOOLEAN :
          /\ calls' = Append(calls, Call("CreateClient", "running", Nil, FALSE, ok))
          /\ IF ok
             THEN /\ pc' = "runTest"
                  /\ UNCHANGED <<response, err>>
             ELSE Return([response EXCEPT !.Status = "running"], "ErrRunSmi")
    /\ UNCHANGED <<h, opts, now, smiAddress, result, kubeVars>>

\* runConformanceTest: cClient.CClient.RunTest and the aggregation of its reply
RunTest ==
    /\ pc = "runTest"
    /\ \E ok \in BOOLEAN :
          /\ calls' = Append(calls, Call("RunTest", "running", Nil, FALSE, ok))
          /\ IF ok
             THEN /\ \E r \in RawResults :
                        /\ result' = r
                        /\ response' = [response EXCEPT
                              !.CasesPassed = r.Casespassed,
                              !.PassingPercentage = r.Passpercent,
                              !.MoreDetails = Aggregate(r.Details)]
                  /\ pc' = "close"
                  /\ UNCHANGED err
             ELSE /\ Return([response EXCEPT !.Status = "running"], "ErrRunSmi")
                  /\ UNCHANGED result
    /\ UNCHANGED <<h, opts, now, smiAddress, kubeVars>>

\* runConformanceTest: cClient.Close
CloseSession ==
    /\ pc = "close"
    /\ \E ok \in BOOLEAN :
          /\ calls' = Append(calls, Call("Close", "running", Nil, FALSE, ok))
          /\ IF ok
             THEN /\ pc' = "deleteFetch"
                  /\ UNCHANGED <<response, err>>
             ELSE Return([response EXCEPT !.Status = "running"], "ErrRunSmi")
    /\ UNCHANGED <<h, opts, now, smiAddress, result, kubeVars>>

\* deleteConformanceTool: utils.ReadRemoteFile
DeleteFetch ==
    /\ pc = "deleteFetch"
    /\ \E ok \in BOOLEAN :
          /\ calls' = Append(calls, Call("ReadRemoteFile", "deleting", Nil, FALSE, ok))
          /\ IF ok
             THEN /\ pc' = "deleteApply"
                  /\ UNCHANGED <<response, err>>
             ELSE Return([response EXCEPT !.Status = "deleting"], "ErrDeleteSmi")
    /\ UNCHANGED <<h, opts, now, smiAddress, result, kubeVars>>

\* DeleteApply swallowing the error of the delete apply
DeleteApplySwallowError ==
    /\ pc = "deleteApply"
    /\ \E ok \in BOOLEAN :
          /\ calls' = Append(calls,
                Call("ApplyManifest", "deleting", opts.Namespace, TRUE, ok))
          /\ IF ok
             THEN Return([response EXCEPT !.Status = "completed"], Nil)
             ELSE Return([response EXCEPT !.Status = "deleting"], Nil)
    /\ UNCHANGED <<h, opts, now, smiAddress, result, kubeVars>>

\* deleteConformanceTool: kclient.ApplyManifest in delete mode, then the
\* final status and the successful return
DeleteApply ==
    /\ pc = "deleteApply"
    /\ \E ok \in BOOLEAN :
          /\ calls' = Append(calls,
                Call("ApplyManifest", "deleting", opts.Namespace, TRUE, ok))
          /\ IF ok
             THEN Return([response EXCEPT !.Status = "completed"], Nil)
             ELSE Return([response EXCEPT !.Status = "deleting"], "ErrDeleteSmi")
    /\ UNCHANGED <<h, opts, now, smiAddress, result, kubeVars>>


----------------------------------------------------------------------------
(* Kubeconfig documents *)

UserNames == 1..MaxUsers
ContextNames == {1}
ClusterNames == {1}
NoName == 0         \* the empty string as a name or as a reference

\* a certificate path: none given; one os.Stat fails on; one os.Stat accepts
\* and ioutil.ReadFile fails on (a directory, no read permission); a file
PathKinds == {"", "missing", "unreadable", "readable"}

EmptyMap == [x \in {} |-> NoName]

Maps(keys, values) == UNION {[D -> values] : D \in SUBSET keys}

\* clientcmdapi.AuthInfo: ClientCertificateData present, ClientCertificate
AuthInfoEntries == [data : BOOLEAN, cert : PathKinds]

\* clientcmdapi.Context: Cluster and AuthInfo references
ContextEntries == [Cluster : ClusterNames \cup {NoName}, AuthInfo : UserNames \cup {NoName}]

\* the kubeconfig bytes that clientcmd.Load rejects
Malformed ==
    [wellFormed |-> FALSE, AuthInfos |-> EmptyMap, Contexts |-> EmptyMap,
     Clusters |-> {}, CurrentContext |-> NoName, filesReadable |-> TRUE]

\* the kubeconfig bytes a caller may pass; filesReadable: the client-key and
\* certificate-authority files the document references can be read
Kubeconfigs ==
    {Malformed} \cup
    [wellFormed : {TRUE},
     AuthInfos : Maps(UserNames, AuthInfoEntries),
     Contexts : Maps(ContextNames, ContextEntries),
     Clusters : SUBSET ClusterNames,
     CurrentContext : ContextNames \cup {NoName},
     filesReadable : BOOLEAN]

\* len(kubeconfig) == 0: clientcmd.Load returns the empty document
EmptyKubeconfig ==
    [wellFormed |-> TRUE, AuthInfos |-> EmptyMap, Contexts |-> EmptyMap,
     Clusters |-> {}, CurrentContext |-> NoName, filesReadable |-> TRUE]

NoConfig ==
    [present |-> FALSE, AuthInfos |-> EmptyMap, Contexts |-> EmptyMap,
     Clusters |-> {}, CurrentContext |-> NoName]

\* os.Stat(path) returns no error
StatOk(path) == path \in {"unreadable", "readable"}

\* ioutil.ReadFile(path) returns no error
ReadOk(path) == path = "readable"

Restrict(f, D) == [x \in D |-> f[x]]

ErrLoad == "ErrValidateKubeconfig: load"
ErrAuthInfosInvalidMsg == "ErrValidateKubeconfig: ErrAuthInfosInvalidMsg"
ErrFlatten == "ErrValidateKubeconfig: flatten"
ErrMinify == "ErrValidateKubeconfig: minify"
NotCalled == "not called"

----------------------------------------------------------------------------
(* filterK8sConfigAuthInfos *)

\* the filter deleting every entry whose certificate path is not accessible,
\* entries with inline data included
filterIgnoringInlineData(infos) ==
    LET kept == {u \in DOMAIN infos : StatOk(infos[u].cert)}
    IN  [AuthInfos |-> Restrict(infos, kept),
         err |-> IF kept = {} THEN ErrAuthInfosInvalidMsg ELSE Nil]

\* the filter without its final emptiness check
filterWithoutEmptyCheck(infos) ==
    LET kept == {u \in DOMAIN infos : infos[u].data \/ StatOk(infos[u].cert)}
    IN  [AuthInfos |-> Restrict(infos, kept), err |-> Nil]

\* the filter returning after its first deletion
filterDeletingOne(infos) ==
    LET bad == {u \in DOMAIN infos : ~(infos[u].data \/ StatOk(infos[u].cert))}
        first == {u \in bad : \A w \in bad : u <= w}
        kept == DOMAIN infos \ first
    IN  [AuthInfos |-> Restrict(infos, kept),
         err |-> IF kept = {} THEN ErrAuthInfosInvalidMsg ELSE Nil]

\* the map after the deletions, and the error returned
filterK8sConfigAuthInfos(infos) ==
    LET kept == {u \in DOMAIN infos : infos[u].data \/ StatOk(infos[u].cert)}
    IN  [AuthInfos |-> Restrict(infos, kept),
         err |-> IF kept = {} THEN ErrAuthInfosInvalidMsg ELSE Nil]

\* filterK8sConfigAuthInfos(fAuthInfos), the accessibility of the paths as before
applyFilter ==
    /\ Len(fLog) < MaxFilterRuns
    /\ LET f == filterK8sConfigAuthInfos(fAuthInfos)
       IN  /\ fAuthInfos' = f.AuthInfos
           /\ fLog' = Append(fLog, f)
    /\ UNCHANGED <<h, smiVars, kpc, kubeconfig, authInfos, kerr, createVars>>

----------------------------------------------------------------------------
(* clientcmdapi.FlattenConfig and clientcmdapi.MinifyConfig, as called by    *)
(* validateKubeconfig                                                        *)

\* FlattenContent fails on an entry: a path together with inline data, or a
\* path that cannot be read
FlattenFails(entry) ==
    entry.cert # "" /\ (entry.data \/ ~ReadOk(entry.cert))

\* an entry after FlattenContent: the file's bytes inlined, the path cleared
Flattened(entry) ==
    IF entry.cert # "" THEN [data |-> TRUE, cert |-> ""] ELSE entry

FlattenConfig(config) ==
    IF \/ \E u \in DOMAIN config.AuthInfos : FlattenFails(config.AuthInfos[u])
       \/ ~config.filesReadable
    THEN [config |-> config, err |-> ErrFlatten]
    ELSE [config |-> [config EXCEPT
                        !.AuthInfos = [u \in DOMAIN config.AuthInfos |->
                                          Flattened(config.AuthInfos[u])]],
          err |-> Nil]

MinifyConfig(config) ==
    LET cur == config.CurrentContext
        ctx == config.Contexts[cur]
    IN  IF cur = NoName \/ cur \notin DOMAIN config.Contexts
        THEN [config |-> config, err |-> ErrMinify]
        ELSE IF ctx.Cluster # NoName /\ ctx.Cluster \notin config.Clusters
        THEN [config |-> config, err |-> ErrMinify]
        ELSE IF ctx.AuthInfo # NoName /\ ctx.AuthInfo \notin DOMAIN config.AuthInfos
        THEN [config |-> config, err |-> ErrMinify]
        ELSE [config |-> [config EXCEPT
                            !.Contexts = Restrict(config.Contexts, {cur}),
                            !.Clusters = config.Clusters \cap {ctx.Cluster},
                            !.AuthInfos = Restrict(config.AuthInfos,
                                            DOMAIN config.AuthInfos \cap {ctx.AuthInfo})],
              err |-> Nil]

----------------------------------------------------------------------------
(* Adapter.validateKubeconfig *)

\* the outcome of validateKubeconfig(kc): the error returned, the auth-info
\* map as the filter left it, the document assigned to h.ClientcmdConfig
Validation(kc) ==
    LET filtered == filterK8sConfigAuthInfos(kc.AuthInfos)
        loaded == [present |-> TRUE, AuthInfos |-> filtered.AuthInfos,
                   Contexts |-> kc.Contexts, Clusters |-> kc.Clusters,
                   CurrentContext |-> kc.CurrentContext,
                   filesReadable |-> kc.filesReadable]
        flat == FlattenConfig(loaded)
        mini == MinifyConfig(flat.config)
        stored == [present |-> TRUE, AuthInfos |-> mini.config.AuthInfos,
                   Contexts |-> mini.config.Contexts, Clusters |-> mini.config.Clusters,
                   CurrentContext |-> mini.config.CurrentContext]
    IN  IF ~kc.wellFormed
        THEN [err |-> ErrLoad, authInfos |-> EmptyMap, stored |-> NoConfig]
        ELSE IF filtered.err # Nil
        THEN [err |-> filtered.err, authInfos |-> filtered.AuthInfos, stored |-> NoConfig]
        ELSE IF flat.err # Nil
        THEN [err |-> flat.err, authInfos |-> filtered.AuthInfos, stored |-> NoConfig]
        ELSE IF mini.err # Nil
        THEN [err |-> mini.err, authInfos |-> filtered.AuthInfos, stored |-> NoConfig]
        ELSE [err |-> Nil, authInfos |-> filtered.AuthInfos, stored |-> stored]

\* a caller invokes h.validateKubeconfig(kc), which runs to its return
validateKubeconfig ==
    /\ kpc = "idle"
    /\ \E kc \in Kubeconfigs :
          LET v == Validation(kc)
          IN  /\ kubeconfig' = kc
              /\ authInfos' = v.authInfos
              /\ kerr' = v.err
              /\ h' = IF v.err = Nil THEN [h EXCEPT !.ClientcmdConfig = v.stored] ELSE h
    /\ kpc' = "returned"
    /\ UNCHANGED <<smiVars, filterVars, createVars>>

\* the caller has the error; the call's argument and locals are gone
validateReturned ==
    /\ kpc = "returned"
    /\ kpc' = "idle"
    /\ kubeconfig' = Malformed
    /\ authInfos' = EmptyMap
    /\ kerr' = NotCalled
    /\ UNCHANGED <<h, smiVars, filterVars, createVars>>

----------------------------------------------------------------------------
(* Adapter.CreateInstance *)

Callers == {1, 2}
ContextArgs == {1, 2}   \* contextName: the document's own context, another name
Channels == {1, 2}      \* ch: the channels callers pass
NoSource == 0           \* a nil client, an unset key
NoChannel == 0          \* a nil channel

QPS == 50
Burst == 100
SetKeyCount == 3        \* the keys written with SetKey, which returns no error

\* the keys createKubeconfig writes, in the order it writes them
KubeconfigKeys ==
    <<"kind", "apiVersion", "current-context", "preferences", "clusters",
      "users", "contexts">>

InlineEntry == [data |-> TRUE, cert |-> ""]
MissingEntry == [data |-> FALSE, cert |-> "missing"]

\* a well-formed document with one context and one cluster
Document(infos, user) ==
    [wellFormed |-> TRUE, AuthInfos |-> infos,
     Contexts |-> (1 :> [Cluster |-> 1, AuthInfo |-> user]),
     Clusters |-> {1}, CurrentContext |-> 1, filesReadable |-> TRUE]

\* the kubeconfig arguments of the CreateInstance calls; a client, a
\* connection config and a key written from the i-th of them carry i
CreateKubeconfigs ==
    << Malformed,
       EmptyKubeconfig,
       Document(1 :> InlineEntry, 1),
       Document((1 :> MissingEntry) @@ (2 :> InlineEntry), 2),
       Document(1 :> MissingEntry, 1) >>

Sources == 1..Len(CreateKubeconfigs)

NoRestConfig == [from |-> NoSource, QPS |-> 0, Burst |-> 0]
NoMesheryClient == [KubeClient |-> NoSource, RestConfig |-> NoRestConfig]
NoArgs == [kubeconfig |-> NoSource, contextName |-> NoName, ch |-> NoChannel]
NoError == [code |-> Nil, cause |-> Nil]

\* the Adapter before any CreateInstance call
NewAdapter(n, v) ==
    [name |-> n, version |-> v,
     ClientcmdConfig |-> NoConfig,
     KubeClient |-> NoSource,
     DynamicKubeClient |-> NoSource,
     RestConfig |-> NoRestConfig,
     KubeconfigHandler |-> [k \in 1..Len(KubeconfigKeys) |-> NoSource],
     MesheryKubeclient |-> NoMesheryClient,
     Channel |-> NoChannel]

ErrCreateInstance(cause) == [code |-> "ErrCreateInstance", cause |-> cause]
ErrClientSet == "ErrClientSet"
ErrKubeconfigStore == "createKubeconfig error"
ErrMesheryClient == "mesherykube.New error"

Step(p, step, ok) == [caller |-> p, step |-> step, ok |-> ok]

\* return ErrCreateInstance(cause) from the step
ReturnError(p, step, cause) ==
    /\ cpc' = [cpc EXCEPT ![p] = "done"]
    /\ cerr' = [cerr EXCEPT ![p] = ErrCreateInstance(cause)]
    /\ clog' = Append(clog, Step(p, step, FALSE))

\* the step returned nil: go on with the next one
Proceed(p, step, next) ==
    /\ cpc' = [cpc EXCEPT ![p] = next]
    /\ clog' = Append(clog, Step(p, step, TRUE))
    /\ UNCHANGED cerr

\* caller p invokes h.CreateInstance(kubeconfig, contextName, ch)
CreateInstance(p) ==
    /\ cpc[p] = "idle"
    /\ \E k \in Sources, c \in ContextArgs, ch \in Channels :
          cargs' = [cargs EXCEPT ![p] = [kubeconfig |-> k, contextName |-> c, ch |-> ch]]
    /\ cbefore' = [cbefore EXCEPT ![p] = h]
    /\ cpc' = [cpc EXCEPT ![p] = "validateKubeconfig"]
    /\ UNCHANGED <<h, smiVars, kpc, kubeconfig, authInfos, kerr, filterVars,
                   callers, inCluster, cerr, clog>>

\* err := h.validateKubeconfig(kubeconfig)
callValidateKubeconfig(p) ==
    /\ cpc[p] = "validateKubeconfig"
    /\ LET v == Validation(CreateKubeconfigs[cargs[p].kubeconfig])
       IN  IF v.err = Nil
           THEN /\ h' = [h EXCEPT !.ClientcmdConfig = v.stored]
                /\ Proceed(p, "validateKubeconfig", "createKubeClient")
           ELSE /\ ReturnError(p, "validateKubeconfig", v.err)
                /\ UNCHANGED h
    /\ UNCHANGED <<smiVars, kpc, kubeconfig, authInfos, kerr, filterVars,
                   callers, inCluster, cargs, cbefore>>

\* createKubeClient leaving h.RestConfig as it was
createKubeClientKeepingRestConfig(p) ==
    /\ cpc[p] = "createKubeClient"
    /\ \E ok \in BOOLEAN :
          IF ok
          THEN /\ h' = [h EXCEPT !.KubeClient = cargs[p].kubeconfig,
                                 !.DynamicKubeClient = cargs[p].kubeconfig]
               /\ Proceed(p, "createKubeClient", "createKubeconfig")
          ELSE /\ ReturnError(p, "createKubeClient", ErrClientSet)
               /\ UNCHANGED h
    /\ UNCHANGED <<smiVars, kpc, kubeconfig, authInfos, kerr, filterVars,
                   callers, inCluster, cargs, cbefore>>

\* err = h.createKubeClient(kubeconfig): the connection config from the
\* kubeconfig bytes, or from the in-cluster configuration when they are
\* empty; then the clientset and the dynamic client
createKubeClient(p) ==
    /\ cpc[p] = "createKubeClient"
    /\ \E configOk \in IF CreateKubeconfigs[cargs[p].kubeconfig] # EmptyKubeconfig
                       THEN BOOLEAN ELSE {inCluster},
          clientsOk \in BOOLEAN :
          IF configOk /\ clientsOk
          THEN /\ h' = [h EXCEPT !.KubeClient = cargs[p].kubeconfig,
                                 !.DynamicKubeClient = cargs[p].kubeconfig,
                                 !.RestConfig = [from |-> cargs[p].kubeconfig,
                                                 QPS |-> QPS, Burst |-> Burst]]
               /\ Proceed(p, "createKubeClient", "createKubeconfig")
          ELSE /\ ReturnError(p, "createKubeClient", ErrClientSet)
               /\ UNCHANGED h
    /\ UNCHANGED <<smiVars, kpc, kubeconfig, authInfos, kerr, filterVars,
                   callers, inCluster, cargs, cbefore>>

\* err = h.createKubeconfig(kubeconfig): yaml.Unmarshal fails and nothing is
\* written, or a SetObject fails after the keys before it were written, or
\* all keys are written
createKubeconfig(p) ==
    /\ cpc[p] = "createKubeconfig"
    /\ \E n \in {0} \cup (SetKeyCount..Len(KubeconfigKeys)) :
          /\ h' = [h EXCEPT !.KubeconfigHandler =
                      [k \in 1..Len(KubeconfigKeys) |->
                          IF k <= n THEN cargs[p].kubeconfig ELSE h.KubeconfigHandler[k]]]
          /\ IF n = Len(KubeconfigKeys)
             THEN Proceed(p, "createKubeconfig", "createMesheryKubeclient")
             ELSE ReturnError(p, "createKubeconfig", ErrKubeconfigStore)
    /\ UNCHANGED <<smiVars, kpc, kubeconfig, authInfos, kerr, filterVars,
                   callers, inCluster, cargs, cbefore>>

\* createMesheryKubeclient assigning the client before it looks at the error
createMesheryKubeclientAssigningFirst(p) ==
    /\ cpc[p] = "createMesheryKubeclient"
    /\ h' = [h EXCEPT !.MesheryKubeclient =
                [KubeClient |-> h.KubeClient, RestConfig |-> h.RestConfig]]
    /\ \E ok \in BOOLEAN :
          IF ok
          THEN Proceed(p, "createMesheryKubeclient", "set")
          ELSE ReturnError(p, "createMesheryKubeclient", ErrMesheryClient)
    /\ UNCHANGED <<smiVars, kpc, kubeconfig, authInfos, kerr, filterVars,
                   callers, inCluster, cargs, cbefore>>

\* err = h.createMesheryKubeclient(kubeconfig): mesherykube.New on the
\* Adapter's current client and connection config
createMesheryKubeclient(p) ==
    /\ cpc[p] = "createMesheryKubeclient"
    /\ \E ok \in BOOLEAN :
          IF ok
          THEN /\ h' = [h EXCEPT !.MesheryKubeclient =
                          [KubeClient |-> h.KubeClient, RestConfig |-> h.RestConfig]]
               /\ Proceed(p, "createMesheryKubeclient", "set")
          ELSE /\ ReturnError(p, "createMesheryKubeclient", ErrMesheryClient)
               /\ UNCHANGED h
    /\ UNCHANGED <<smiVars, kpc, kubeconfig, authInfos, kerr, filterVars,
                   callers, inCluster, cargs, cbefore>>

\* the last step attaching the channel and leaving the current-context alone
setChannelOnly(p) ==
    /\ cpc[p] = "set"
    /\ h' = [h EXCEPT !.Channel = cargs[p].ch]
    /\ cpc' = [cpc EXCEPT ![p] = "done"]
    /\ cerr' = [cerr EXCEPT ![p] = NoError]
    /\ clog' = Append(clog, Step(p, "set", TRUE))
    /\ UNCHANGED <<smiVars, kpc, kubeconfig, authInfos, kerr, filterVars,
                   callers, inCluster, cargs, cbefore>>

\* h.ClientcmdConfig.CurrentContext = contextName; h.Channel = ch; return nil
setContextAndChannel(p) ==
    /\ cpc[p] = "set"
    /\ h' = [h EXCEPT !.ClientcmdConfig.CurrentContext = cargs[p].contextName,
                      !.Channel = cargs[p].ch]
    /\ cpc' = [cpc EXCEPT ![p] = "done"]
    /\ cerr' = [cerr EXCEPT ![p] = NoError]
    /\ clog' = Append(clog, Step(p, "set", TRUE))
    /\ UNCHANGED <<smiVars, kpc, kubeconfig, authInfos, kerr, filterVars,
                   callers, inCluster, cargs, cbefore>>

\* the only caller has the error; the call's arguments are gone
createReturned(p) ==
    /\ callers = {p}
    /\ cpc[p] = "done"
    /\ cpc' = [cpc EXCEPT ![p] = "idle"]
    /\ cargs' = [cargs EXCEPT ![p] = NoArgs]
    /\ cerr' = [cerr EXCEPT ![p] = NoError]
    /\ cbefore' = [cbefore EXCEPT ![p] = h]
    /\ clog' = <<>>
    /\ UNCHANGED <<h, smiVars, kpc, kubeconfig, authInfos, kerr, filterVars,
                   callers, inCluster>>

----------------------------------------------------------------------------
(* Specification of one RunSMITest call *)

\* no CreateInstance call has begun; cs are the callers there will be
NoCreateCalls(cs) ==
    /\ callers = cs
    /\ inCluster \in BOOLEAN
    /\ cpc = [p \in Callers |-> "idle"]
    /\ cargs = [p \in Callers |-> NoArgs]
    /\ cerr = [p \in Callers |-> NoError]
    /\ cbefore = [p \in Callers |-> h]
    /\ clog = <<>>

Init ==
    /\ \E n \in AdapterNames, v \in AdapterVersions : h = NewAdapter(n, v)
    /\ NoCreateCalls({})
    /\ inCluster = FALSE
    /\ pc = "idle"
    /\ opts = NoOpts
    /\ now = 0
    /\ response = ZeroResponse
    /\ err = Nil
    /\ smiAddress = ""
    /\ result = NoResult
    /\ calls = <<>>
    /\ kpc = "idle"
    /\ kubeconfig = Malformed
    /\ authInfos = EmptyMap
    /\ kerr = NotCalled
    /\ fAuthInfos = EmptyMap
    /\ fLog = <<>>

Next ==
    \/ RunSMITest
    \/ NewKubeClient
    \/ InstallFetch
    \/ InstallApply
    \/ Connect
    \/ OpenSession
    \/ RunTest
    \/ CloseSession
    \/ DeleteFetch
    \/ DeleteApply

Spec == Init /\ [][Next]_vars

----------------------------------------------------------------------------
(* Specification of the validateKubeconfig calls on one Adapter *)

NextKube ==
    \/ validateKubeconfig
    \/ validateReturned

SpecKube == Init /\ [][NextKube]_vars

----------------------------------------------------------------------------
(* Specification of filterK8sConfigAuthInfos applied repeatedly to one map *)

InitFilter ==
    /\ \E n \in AdapterNames, v \in AdapterVersions : h = NewAdapter(n, v)
    /\ NoCreateCalls({})
    /\ inCluster = FALSE
    /\ pc = "idle"
    /\ opts = NoOpts
    /\ now = 0
    /\ response = ZeroResponse
    /\ err = Nil
    /\ smiAddress = ""
    /\ result = NoResult
    /\ calls = <<>>
    /\ kpc = "idle"
    /\ kubeconfig = Malformed
    /\ authInfos = EmptyMap
    /\ kerr = NotCalled
    /\ fAuthInfos \in Maps(UserNames, AuthInfoEntries)
    /\ fLog = <<>>

NextFilter == applyFilter

SpecFilter == InitFilter /\ [][NextFilter]_vars

----------------------------------------------------------------------------
(* Specification of the CreateInstance calls of one caller on one Adapter *)

\* the state in which no call of any kind has begun
Quiet ==
    /\ pc = "idle"
    /\ opts = NoOpts
    /\ now = 0
    /\ response = ZeroResponse
    /\ err = Nil
    /\ smiAddress = ""
    /\ result = NoResult
    /\ calls = <<>>
    /\ kpc = "idle"
    /\ kubeconfig = Malformed
    /\ authInfos = EmptyMap
    /\ kerr = NotCalled
    /\ fAuthInfos = EmptyMap
    /\ fLog = <<>>

InitCreate ==
    /\ \E n \in AdapterNames, v \in AdapterVersions : h = NewAdapter(n, v)
    /\ NoCreateCalls({1})
    /\ Quiet

NextCreate ==
    \/ \E p \in callers : CreateInstance(p)
    \/ \E p \in callers : callValidateKubeconfig(p)
    \/ \E p \in callers : createKubeClient(p)
    \/ \E p \in callers : createKubeconfig(p)
    \/ \E p \in callers : createMesheryKubeclient(p)
    \/ \E p \in callers : setContextAndChannel(p)
    \/ \E p \in callers : createReturned(p)

SpecCreate == InitCreate /\ [][NextCreate]_vars

----------------------------------------------------------------------------
(* Specification of two callers each calling CreateInstance once on the     *)
(* same Adapter, without synchronisation                                    *)

InitConcurrent ==
    /\ \E n \in AdapterNames, v \in AdapterVersions : h = NewAdapter(n, v)
    /\ NoCreateCalls(Callers)
    /\ Quiet

NextConcurrent ==
    \/ \E p \in callers : CreateInstance(p)
    \/ \E p \in callers : callValidateKubeconfig(p)
    \/ \E p \in callers : createKubeClient(p)
    \/ \E p \in callers : createKubeconfig(p)
    \/ \E p \in callers : createMesheryKubeclient(p)
    \/ \E p \in callers : setContextAndChannel(p)

SpecConcurrent == InitConcurrent /\ [][NextConcurrent]_vars

----------------------------------------------------------------------------
(* Properties of RunSMITest *)

PhaseRank(p) ==
    CASE p = "init" -> 0
      [] p = "installing" -> 1
      [] p = "connecting" -> 2
      [] p = "running" -> 3
      [] p = "deleting" -> 4

PhaseNames == {"installing", "connecting", "running", "deleting"}

\* the collaborator operations of a phase that completes
PhaseOps(p) ==
    CASE p = "init" -> {"New"}
      [] p = "installing" -> {"ReadRemoteFile", "ApplyManifest"}
      [] p = "connecting" -> {"GetServiceEndpoint"}
      [] p = "running" -> {"CreateClient", "RunTest", "Close"}
      [] p = "deleting" -> {"ReadRemoteFile", "ApplyManifest"}

CallsOf(p) == {i \in 1..Len(calls) : calls[i].phase = p}
Returned == pc = "done"
RunTestSucceeded == \E i \in 1..Len(calls) : calls[i].op = "RunTest" /\ calls[i].ok

\* the phase label of an error and the status reported with it
PhaseLabel(p) ==
    CASE p = "installing" -> "ErrInstallSmi"
      [] p = "connecting" -> "ErrConnectSmi"
      [] p = "running" -> "ErrRunSmi"
      [] p = "deleting" -> "ErrDeleteSmi"

\* C1: the collaborator calls of a RunSMITest call are issued phase by phase
\* in the order installing, connecting, running, deleting: a call of a phase
\* is issued only after every call of every earlier phase was issued and
\* succeeded, and no call follows a failed call.
PhasesInOrder ==
    \A i \in 1..Len(calls) :
        /\ \A j \in 1..(i - 1) :
              /\ calls[j].ok
              /\ PhaseRank(calls[j].phase) <= PhaseRank(calls[i].phase)
        /\ \A p \in PhaseNames \cup {"init"} :
              PhaseRank(p) < PhaseRank(calls[i].phase) =>
                  {calls[j].op : j \in {k \in CallsOf(p) : k < i}} = PhaseOps(p)

\* the manifest fetch of installing failed: no later phase has a call
InstallFetchFailed ==
    /\ Returned
    /\ Len(calls) = 2
    /\ calls[2].op = "ReadRemoteFile" /\ ~calls[2].ok
    /\ response.Status = "installing" /\ err = "ErrInstallSmi"
    /\ CallsOf("connecting") \cup CallsOf("running") \cup CallsOf("deleting") = {}

\* C2 as claimed: every non-nil error returned is one of the four phase
\* labels and the report's status names the phase of the failed call.
ErrorIsPhaseLabel ==
    (Returned /\ err # Nil) =>
        \E p \in PhaseNames :
            /\ err = PhaseLabel(p)
            /\ response.Status = p
            /\ calls[Len(calls)].phase = p

\* C2 amended: a non-nil error is either the initialisation error, returned
\* with the empty report when creating the Kubernetes client wrapper fails
\* before any phase, or one of the four phase labels with the report's
\* status naming the phase of the failed call.
ErrorIsInitOrPhaseLabel ==
    (Returned /\ err # Nil) =>
        /\ ~calls[Len(calls)].ok
        /\ \/ /\ err = "ErrSmiInit"
              /\ calls[Len(calls)].phase = "init"
              /\ response.Status = ""
           \/ \E p \in PhaseNames :
                 /\ err = PhaseLabel(p)
                 /\ response.Status = p
                 /\ calls[Len(calls)].phase = p

ConnectFailed ==
    /\ Returned
    /\ err = "ErrConnectSmi"
    /\ response.Status = "connecting"
    /\ calls[Len(calls)].op = "GetServiceEndpoint"

\* the report carries the run id, the timestamp, the subject and a status
Populated(r) ==
    /\ r.ID = opts.OperationID
    /\ r.Date = FormatRFC3339(now) /\ r.Date # ""
    /\ r.MeshName = h.name
    /\ r.MeshVersion = h.version
    /\ r.Status # ""

\* C3 as claimed: the report returned on any exit path is populated.
ReportNeverEmpty == Returned => Populated(response)

\* C3 amended: the report returned on every exit path after the Kubernetes
\* client wrapper was created, every phase failure included, is populated;
\* when creating the wrapper fails the empty report is returned.
ReportPopulatedAfterInit ==
    Returned =>
        IF err = "ErrSmiInit" THEN response = ZeroResponse ELSE Populated(response)

InstallApplyFailed ==
    /\ Returned
    /\ calls[Len(calls)].op = "ApplyManifest" /\ ~calls[Len(calls)].ok
    /\ calls[Len(calls)].phase = "installing"
    /\ Populated(response)

\* C4: the error returned is nil exactly when the status is "completed"; a
\* call whose collaborator calls all succeed returns status "completed",
\* the pass count and percentage of the remote tool and as many Detail
\* records as the tool returned.
NilErrorIffCompleted ==
    Returned =>
        /\ (err = Nil) <=> (response.Status = "completed")
        /\ (\A i \in 1..Len(calls) : calls[i].ok) => response.Status = "completed"
        /\ response.Status = "completed" =>
              /\ response.CasesPassed = result.Casespassed
              /\ response.PassingPercentage = result.Passpercent
              /\ Len(response.MoreDetails) = Len(result.Details)

HappyPath ==
    /\ Returned
    /\ err = Nil
    /\ response.Status = "completed"
    /\ response.CasesPassed = "8"
    /\ Len(response.MoreDetails) = 3

\* C5: once the test-execution request succeeded the Detail sequence has the
\* length of the raw assertion list and its i-th Detail carries the
\* specification id, time, assertion text, result, reason, capability and
\* status of the i-th raw record.
DetailsInInputOrder ==
    RunTestSucceeded =>
        /\ Len(response.MoreDetails) = Len(result.Details)
        /\ \A i \in 1..Len(result.Details) :
              /\ response.MoreDetails[i].SmiSpecification = result.Details[i].Smispec
              /\ response.MoreDetails[i].Time = result.Details[i].Time
              /\ response.MoreDetails[i].Assertions = result.Details[i].Assertions
              /\ response.MoreDetails[i].Result = result.Details[i].Result
              /\ response.MoreDetails[i].Reason = result.Details[i].Reason
              /\ response.MoreDetails[i].Capability = result.Details[i].Capability
              /\ response.MoreDetails[i].Status = result.Details[i].Status

SeveralDistinctDetails ==
    /\ RunTestSucceeded
    /\ Len(result.Details) >= 2
    /\ result.Details[1] # result.Details[2]
    /\ Len(response.MoreDetails) = Len(result.Details)

\* C6 as claimed: each Detail record equals its raw record in all eight
\* fields, the specification version included.
DetailPreservesAllFields ==
    RunTestSucceeded =>
        \A i \in 1..Len(response.MoreDetails) :
            /\ response.MoreDetails[i].SmiSpecification = result.Details[i].Smispec
            /\ response.MoreDetails[i].SmiVersion = result.Details[i].Smiversion
            /\ response.MoreDetails[i].Time = result.Details[i].Time
            /\ response.MoreDetails[i].Assertions = result.Details[i].Assertions
            /\ response.MoreDetails[i].Result = result.Details[i].Result
            /\ response.MoreDetails[i].Reason = result.Details[i].Reason
            /\ response.MoreDetails[i].Capability = result.Details[i].Capability
            /\ response.MoreDetails[i].Status = result.Details[i].Status

\* C7 as claimed: with the namespace option left empty every
\* namespace-scoped collaborator call of the run is given "meshery".
DefaultNamespaceUsed ==
    (pc # "idle" /\ opts.Namespace = "") =>
        \A i \in 1..Len(calls) : calls[i].ns # Nil => calls[i].ns = "meshery"

----------------------------------------------------------------------------
(* Properties of validateKubeconfig *)

KubeReturned == kpc = "returned"

\* the entry carries inline data or a certificate path os.Stat accepts
Usable(entry) == entry.data \/ StatOk(entry.cert)

AllUnusable(infos) == \A u \in DOMAIN infos : ~Usable(infos[u])
HasInlineData(infos) == \E u \in DOMAIN infos : infos[u].data

\* C8: a validateKubeconfig call on a well-formed document none of whose
\* auth-info entries has inline data or an accessible certificate path (the
\* document without entries included) returns the no-usable-credentials
\* error and leaves h.ClientcmdConfig as it was.
NoUsableCredentialsRejected ==
    [][(/\ kpc = "idle" /\ kpc' = "returned"
        /\ kubeconfig'.wellFormed
        /\ AllUnusable(kubeconfig'.AuthInfos))
          => (/\ kerr' = ErrAuthInfosInvalidMsg
              /\ h'.ClientcmdConfig = h.ClientcmdConfig)]_vars

\* a document of unusable entries was rejected while a document was stored
UnusableRejectedKeepingStored ==
    /\ KubeReturned
    /\ kubeconfig.wellFormed
    /\ DOMAIN kubeconfig.AuthInfos # {}
    /\ AllUnusable(kubeconfig.AuthInfos)
    /\ kubeconfig.CurrentContext \in DOMAIN kubeconfig.Contexts
    /\ kerr = ErrAuthInfosInvalidMsg
    /\ h.ClientcmdConfig.present

\* C9 as claimed: a well-formed document with an auth-info entry carrying
\* inline data validates, whatever its other entries and its contexts, and
\* the filter keeps the inline-data entries.
InlineDataValidates ==
    (KubeReturned /\ kubeconfig.wellFormed /\ HasInlineData(kubeconfig.AuthInfos)) =>
        /\ kerr = Nil
        /\ \A u \in DOMAIN kubeconfig.AuthInfos :
              kubeconfig.AuthInfos[u].data => u \in DOMAIN authInfos

\* flattening the filtered document succeeds: no kept entry has a path
\* together with inline data or a path that cannot be read
CanFlatten(kc) ==
    /\ kc.filesReadable
    /\ \A u \in DOMAIN kc.AuthInfos :
          LET e == kc.AuthInfos[u]
          IN  Usable(e) => (e.cert = "" \/ (~e.data /\ ReadOk(e.cert)))

\* the current-context names a context whose cluster and user, when named,
\* are a cluster of the document and a usable auth-info entry
ContextResolves(kc) ==
    /\ kc.CurrentContext \in DOMAIN kc.Contexts
    /\ LET ctx == kc.Contexts[kc.CurrentContext]
       IN  /\ ctx.Cluster = NoName \/ ctx.Cluster \in kc.Clusters
           /\ \/ ctx.AuthInfo = NoName
              \/ /\ ctx.AuthInfo \in DOMAIN kc.AuthInfos
                 /\ Usable(kc.AuthInfos[ctx.AuthInfo])

\* C9 amended: on a well-formed document with an auth-info entry carrying
\* inline data the filter keeps every inline-data entry unchanged and
\* validateKubeconfig never returns the no-usable-credentials error, whatever
\* the path validity of the other entries; it succeeds exactly when in
\* addition flattening succeeds and the current-context resolves.
InlineDataPassesFilter ==
    (KubeReturned /\ kubeconfig.wellFormed /\ HasInlineData(kubeconfig.AuthInfos)) =>
        /\ \A u \in DOMAIN kubeconfig.AuthInfos :
              kubeconfig.AuthInfos[u].data =>
                  /\ u \in DOMAIN authInfos
                  /\ authInfos[u] = kubeconfig.AuthInfos[u]
        /\ kerr \notin {ErrAuthInfosInvalidMsg, ErrLoad}
        /\ (kerr = Nil) <=> (CanFlatten(kubeconfig) /\ ContextResolves(kubeconfig))

\* an inline-data entry next to an entry with a missing path validated
InlineAmongUnusableValidated ==
    /\ KubeReturned
    /\ kubeconfig.wellFormed
    /\ \E u, w \in DOMAIN kubeconfig.AuthInfos :
          /\ kubeconfig.AuthInfos[u].data
          /\ ~Usable(kubeconfig.AuthInfos[w])
          /\ u \in DOMAIN authInfos
          /\ w \notin DOMAIN authInfos
    /\ kerr = Nil
    /\ h.ClientcmdConfig.present

\* C10 as claimed: the document stored by a successful validation has at
\* least one auth-info entry, and each of its entries carries inline data or
\* a certificate path that was accessible.
StoredConfigHasCredential ==
    (KubeReturned /\ kerr = Nil) =>
        /\ DOMAIN h.ClientcmdConfig.AuthInfos # {}
        /\ \A u \in DOMAIN h.ClientcmdConfig.AuthInfos :
              /\ u \in DOMAIN kubeconfig.AuthInfos
              /\ Usable(kubeconfig.AuthInfos[u])

----------------------------------------------------------------------------
(* Further properties of RunSMITest *)

CallsTo(op) == {i \in 1..Len(calls) : calls[i].op = op}
SessionOpened == \E i \in CallsTo("CreateClient") : calls[i].ok
RunningPhaseLeft == pc \in {"deleteFetch", "deleteApply", "done"}

\* C12 as claimed: once opening the session succeeded, Close has been called
\* exactly once when runConformanceTest has returned, whether the
\* test-execution request succeeded or failed.
SessionAlwaysClosed ==
    (SessionOpened /\ RunningPhaseLeft) => Cardinality(CallsTo("Close")) = 1

\* C14: no collaborator call is repeated within one RunSMITest call: calls
\* of the same operation are at most the install and the delete instance of
\* the manifest fetch and of the apply, and no call to a collaborator follows
\* a failed call to it.
NothingRetried ==
    /\ \A i, j \in 1..Len(calls) :
          (i < j /\ calls[i].op = calls[j].op) =>
              /\ calls[i].op \in {"ReadRemoteFile", "ApplyManifest"}
              /\ calls[i].phase = "installing" /\ calls[j].phase = "deleting"
              /\ calls[i].ok
    /\ Cardinality(CallsTo("ReadRemoteFile")) <= 2
    /\ Cardinality({i \in CallsTo("ApplyManifest") : ~calls[i].delete}) <= 1
    /\ Cardinality({i \in CallsTo("ApplyManifest") : calls[i].delete}) <= 1
    /\ \A op \in {"New", "GetServiceEndpoint", "CreateClient", "RunTest", "Close"} :
          Cardinality(CallsTo(op)) <= 1

\* the delete apply failed after both manifest fetches: nothing was repeated
DeleteApplyFailedOnce ==
    /\ Returned
    /\ err = "ErrDeleteSmi"
    /\ Cardinality(CallsTo("ReadRemoteFile")) = 2
    /\ Cardinality(CallsTo("ApplyManifest")) = 2
    /\ ~calls[Len(calls)].ok /\ calls[Len(calls)].delete

\* C18 as claimed: a report returned with status "installing" or
\* "connecting" has pass count "0", percentage "0" and no Detail record; one
\* returned with status "deleting" or "completed" has the pass count, the
\* percentage and the Detail records the remote tool returned; the result
\* fields are written only after the test-execution request succeeded.
ResultFieldsTrackPhase ==
    /\ (Returned /\ response.Status \in {"installing", "connecting"}) =>
          /\ response.CasesPassed = "0"
          /\ response.PassingPercentage = "0"
          /\ response.MoreDetails = <<>>
    /\ (Returned /\ response.Status \in {"deleting", "completed"}) =>
          /\ response.CasesPassed = result.Casespassed
          /\ response.PassingPercentage = result.Passpercent
          /\ Len(response.MoreDetails) = Len(result.Details)
          /\ \A i \in 1..Len(result.Details) :
                /\ response.MoreDetails[i].SmiSpecification = result.Details[i].Smispec
                /\ response.MoreDetails[i].SmiVersion = result.Details[i].Smiversion
                /\ response.MoreDetails[i].Time = result.Details[i].Time
                /\ response.MoreDetails[i].Assertions = result.Details[i].Assertions
                /\ response.MoreDetails[i].Result = result.Details[i].Result
                /\ response.MoreDetails[i].Reason = result.Details[i].Reason
                /\ response.MoreDetails[i].Capability = result.Details[i].Capability
                /\ response.MoreDetails[i].Status = result.Details[i].Status
    /\ (~RunTestSucceeded /\ pc \notin {"idle", "new"} /\ err # "ErrSmiInit") =>
          /\ response.CasesPassed = "0"
          /\ response.PassingPercentage = "0"
          /\ response.MoreDetails = <<>>

----------------------------------------------------------------------------
(* Properties of filterK8sConfigAuthInfos *)

\* C15: a further application of the filter to the map a first application
\* left removes nothing: it leaves the same map and returns the same
\* outcome as the first.
FilterIdempotent ==
    \A i \in 1..Len(fLog) :
        /\ fLog[i].AuthInfos = fLog[1].AuthInfos
        /\ fLog[i].err = fLog[1].err
        /\ i > 1 => fLog[i].AuthInfos = fLog[i - 1].AuthInfos

\* the filter ran twice on a map from which the first run removed an entry
\* and kept another
FilteredTwice ==
    /\ Len(fLog) >= 2
    /\ fLog[1].AuthInfos # EmptyMap
    /\ fLog[2].err = Nil
    /\ \E u \in UserNames : u \notin DOMAIN fLog[1].AuthInfos

----------------------------------------------------------------------------
(* Properties of CreateInstance *)

\* the steps of CreateInstance, in the order of its body
CreateSteps ==
    <<"validateKubeconfig", "createKubeClient", "createKubeconfig",
      "createMesheryKubeclient", "set">>

\* the errors a step can return
StepErrors(step) ==
    CASE step = "validateKubeconfig" -> {ErrLoad, ErrAuthInfosInvalidMsg, ErrFlatten, ErrMinify}
      [] step = "createKubeClient" -> {ErrClientSet}
      [] step = "createKubeconfig" -> {ErrKubeconfigStore}
      [] step = "createMesheryKubeclient" -> {ErrMesheryClient}
      [] step = "set" -> {}

StepsOf(p) == SelectSeq(clog, LAMBDA e : e.caller = p)
CreateDone(p) == cpc[p] = "done"
CreateFailed(p) == CreateDone(p) /\ cerr[p] # NoError
CreateSucceeded(p) == CreateDone(p) /\ cerr[p] = NoError
FailedStep(p) == StepsOf(p)[Len(StepsOf(p))].step

\* the document validateKubeconfig stores for the call of p
StoredFor(p) == Validation(CreateKubeconfigs[cargs[p].kubeconfig]).stored

\* C11: a CreateInstance call runs validateKubeconfig, createKubeClient,
\* createKubeconfig, createMesheryKubeclient and the context/channel
\* assignment in this order, runs no step after a failed one, returns the
\* failed step's error wrapped as ErrCreateInstance, and when it returns nil
\* the current-context is the contextName argument and the channel is the
\* caller's.
BootstrapInOrder ==
    \A p \in callers :
        LET st == StepsOf(p)
        IN  /\ Len(st) <= Len(CreateSteps)
            /\ \A i \in 1..Len(st) :
                  /\ st[i].step = CreateSteps[i]
                  /\ i < Len(st) => st[i].ok
                  /\ ~st[i].ok => CreateDone(p)
            /\ CreateFailed(p) =>
                  /\ ~st[Len(st)].ok
                  /\ cerr[p].code = "ErrCreateInstance"
                  /\ cerr[p].cause \in StepErrors(st[Len(st)].step)
            /\ CreateSucceeded(p) =>
                  /\ Len(st) = Len(CreateSteps)
                  /\ \A i \in 1..Len(st) : st[i].ok
                  /\ h.ClientcmdConfig.CurrentContext = cargs[p].contextName
                  /\ h.Channel = cargs[p].ch

\* a call succeeded with a contextName that is not the document's own
BootstrappedWithOtherContext ==
    \E p \in callers :
        /\ CreateSucceeded(p)
        /\ CreateKubeconfigs[cargs[p].kubeconfig].CurrentContext # cargs[p].contextName
        /\ h.ClientcmdConfig.CurrentContext = cargs[p].contextName
        /\ h.Channel = cargs[p].ch

\* the Adapter holds what a successful call of p alone leaves
ConsistentWith(p) ==
    LET k == cargs[p].kubeconfig
        rc == [from |-> k, QPS |-> QPS, Burst |-> Burst]
    IN  /\ h.ClientcmdConfig = [StoredFor(p) EXCEPT !.CurrentContext = cargs[p].contextName]
        /\ h.KubeClient = k
        /\ h.DynamicKubeClient = k
        /\ h.RestConfig = rc
        /\ h.KubeconfigHandler = [i \in 1..Len(KubeconfigKeys) |-> k]
        /\ h.MesheryKubeclient = [KubeClient |-> k, RestConfig |-> rc]
        /\ h.Channel = cargs[p].ch

\* no step of a call ran between two steps of the other call
Serialized ==
    \A i, j \in 1..Len(clog) :
        (i < j /\ clog[i].caller = clog[j].caller) =>
            \A m \in i..j : clog[m].caller = clog[i].caller

\* C13: when the two calls run one after the other and the later one
\* succeeds, every field of the Adapter is the one the later call wrote.
\* (That interleaved successful calls can leave a mixed Adapter is the
\* reachability of MixedInstance.)
SerializedCallsConsistent ==
    (/\ callers = Callers
     /\ \A p \in Callers : CreateDone(p)
     /\ Serialized
     /\ Len(clog) > 0
     /\ CreateSucceeded(clog[Len(clog)].caller))
        => ConsistentWith(clog[Len(clog)].caller)

\* both calls returned nil and the Adapter holds the document and the
\* channel of one call with the clients and connection config of the other
MixedInstance ==
    \E p, q \in Callers :
        /\ p # q
        /\ CreateSucceeded(p) /\ CreateSucceeded(q)
        /\ cargs[p].kubeconfig # cargs[q].kubeconfig
        /\ cargs[p].ch # cargs[q].ch
        /\ ~Serialized
        /\ h.ClientcmdConfig.AuthInfos = StoredFor(p).AuthInfos
        /\ h.Channel = cargs[p].ch
        /\ h.KubeClient = cargs[q].kubeconfig
        /\ h.RestConfig.from = cargs[q].kubeconfig
        /\ ~ConsistentWith(p) /\ ~ConsistentWith(q)

\* C16 as claimed: a call with empty kubeconfig bytes, made where in-cluster
\* credentials are available, reaches createKubeClient and returns nil.
InClusterBootstrapSucceeds ==
    \A p \in callers :
        (/\ CreateDone(p)
         /\ CreateKubeconfigs[cargs[p].kubeconfig] = EmptyKubeconfig
         /\ inCluster)
            => /\ cerr[p] = NoError
               /\ \E i \in 1..Len(clog) :
                     clog[i].caller = p /\ clog[i].step = "createKubeClient"

\* C17 as claimed: a call that returned an error left the Adapter as it was
\* when the call began.
FailedCreateLeavesAdapter ==
    \A p \in callers : CreateFailed(p) => h = cbefore[p]

\* C17 amended: a call that fails in validateKubeconfig leaves the Adapter as
\* it was; a call that fails later leaves the fields the completed steps
\* wrote replaced (the stored document after validateKubeconfig, the
\* clients and the connection config after createKubeClient, the keys
\* createKubeconfig wrote before it failed) and every other field, among
\* them the client wrapper and the channel, as it was.
FailedCreateKeepsUnreachedFields ==
    \A p \in callers :
        CreateFailed(p) =>
            LET k == cargs[p].kubeconfig
                validated == [cbefore[p] EXCEPT !.ClientcmdConfig = StoredFor(p)]
                connected == [validated EXCEPT
                                 !.KubeClient = k,
                                 !.DynamicKubeClient = k,
                                 !.RestConfig = [from |-> k, QPS |-> QPS, Burst |-> Burst]]
            IN  /\ h.Channel = cbefore[p].Channel
                /\ h.MesheryKubeclient = cbefore[p].MesheryKubeclient
                /\ FailedStep(p) = "validateKubeconfig" => h = cbefore[p]
                /\ FailedStep(p) = "createKubeClient" => h = validated
                /\ FailedStep(p) = "createKubeconfig" =>
                      \E n \in 0..(Len(KubeconfigKeys) - 1) :
                          h = [connected EXCEPT !.KubeconfigHandler =
                                  [i \in 1..Len(KubeconfigKeys) |->
                                      IF i <= n THEN k
                                      ELSE cbefore[p].KubeconfigHandler[i]]]
                /\ FailedStep(p) = "createMesheryKubeclient" =>
                      h = [connected EXCEPT !.KubeconfigHandler =
                              [i \in 1..Len(KubeconfigKeys) |-> k]]

\* a call failed in createKubeClient after it replaced the stored document
FailedAfterReplacingDocument ==
    \E p \in callers :
        /\ CreateFailed(p)
        /\ FailedStep(p) = "createKubeClient"
        /\ cbefore[p].ClientcmdConfig.present
        /\ h.ClientcmdConfig # cbefore[p].ClientcmdConfig
        /\ h.KubeClient = cbefore[p].KubeClient

====
